---------------------------- MODULE Spec2Model ----------------------------
(***************************************************************************)
(* grpxy: a multi-tenant reverse proxy (src/src/main.go).                  *)
(*                                                                         *)
(* The model follows the admission and routing pipeline of the program:   *)
(*   requestHandler  - OPTIONS side door, host resolution over the Apps    *)
(*                     map, non-blocking try of the semaphore, then a      *)
(*                     non-blocking send to requestQueue, else 503;        *)
(*   App.queueWorker - one goroutine per App: receive from requestQueue,   *)
(*                     blocking send to the semaphore, spawn the proxy;    *)
(*   getNextBackend  - atomic.AddUint32 on currentIndex, modulo the        *)
(*                     number of backends.                                 *)
(* Go channels are modelled with their rendezvous rules: a non-blocking    *)
(* send succeeds when the buffer has room or a receiver is parked, and a   *)
(* receive from a full buffer with a parked sender admits that sender's    *)
(* value in the same step.                                                 *)
(***************************************************************************)
EXTENDS Integers, Sequences, FiniteSets, TLC

\* ------------------------------------------------------------------ bounds
MaxReqs     == 2    \* requests that arrive in one run of Spec
MaxScenarioReqs == 3 \* requests that arrive in one run of SpecScenario
MaxRouteReqs == 2   \* requests that arrive in one run of SpecRoute
MaxC        == 2    \* largest max_requests of a single tenant
MaxQ        == 1    \* largest queue_size of a single tenant
MaxBackends == 2    \* largest backend list of a single tenant
CounterBits == 4    \* width of currentIndex (uint32 in the program)
MaxLiveReqs == 3     \* requests that arrive in one run of SpecLive
MaxWrapReqs == 2     \* requests that arrive in one run of SpecWrap
MaxWrapBackends == 3 \* largest backend list in SpecWrap
MaxReloadEvents == 3 \* requests and writes of the config file that arrive
                     \* in one run of SpecReload or SpecPublish

VARIABLES
    file,     \* the decoded config file: the [apps.*] tables in declared order
    apps,     \* the App objects built by loadConfig, by pointer
    config,   \* atomic.Value config: the current *Config (name -> *App)
    reqs,     \* the requests that have arrived, in arrival order
    dispatched, \* per App: what getNextBackend returned, call after call,
                \* and how many lines watchConfig had logged by then
    toArrive, \* the number of requests (and of writes of the config file)
              \* still to arrive
    watchLog, \* what watchConfig logged, event after event, each line with
              \* its time: the number of requests that had arrived
    sawFull   \* history: the requests that arrived while their tenant had
              \* max_requests running and queue_size waiting, with no
              \* completion of that tenant since, until their handler is done

vars == <<file, apps, config, reqs, dispatched, toArrive, watchLog, sawFull>>

NoReq == 0
NoApp == <<>>

\* ------------------------------------------------------ host name matching
\* gobwas/glob without separators: "*" matches any run of characters,
\* every other character matches itself.
RECURSIVE Match(_, _)
Match(pattern, host) ==
    IF pattern = <<>> THEN host = <<>>
    ELSE IF Head(pattern) = "*"
         THEN \/ Match(Tail(pattern), host)
              \/ host # <<>> /\ Match(pattern, Tail(host))
         ELSE /\ host # <<>>
              /\ Head(host) = Head(pattern)
              /\ Match(Tail(pattern), Tail(host))

\* The Host headers that occur in the traffic.
AllHosts == << <<"a", ".", "x">>, <<"b", ".", "x">>, <<"o", ".", "t">> >>

Methods == {"GET", "OPTIONS"}

\* ------------------------------------------------------------ config file
BackendNames == <<"b1", "b2", "b3", "b4">>

\* One [apps.<name>] table of the file.  decodes: whether toml.DecodeFile can
\* decode the table's text into an App (no syntax error, no value of the
\* wrong type).
AppTable(name, pat, backends, c, q, lb) ==
    [name |-> name, ServerName |-> pat, Backends |-> backends,
     MaxRequests |-> c, QueueSize |-> q, LoadBalance |-> lb, decodes |-> TRUE]

AppDecl(name, pat, n, c, q) ==
    AppTable(name, pat, SubSeq(BackendNames, 1, n), c, q, "round_robin")

\* A single tenant, with every admission limit and backend count in bounds.
Files ==
    { << AppDecl("api", <<"*", ".", "x">>, n, c, q) >> :
        n \in 1..MaxBackends, c \in 0..MaxC, q \in 0..MaxQ }

\* The scenario of the program's design document: max_requests = 2 and
\* queue_size = 1, over every backend count in bounds.
ScenarioFiles ==
    { << AppDecl("api", <<"*", ".", "x">>, n, 2, 1) >> : n \in 1..MaxBackends }

\* Two tenants with overlapping patterns, as in the README's example
\* ("*.example.com" declared before "admin.example.com").
RouteFiles ==
    { << AppDecl("api", <<"*", ".", "x">>, 2, 1, q),
         AppDecl("admin", <<"a", ".", "x">>, 1, 1, 0) >> : q \in 0..1 }

\* One tenant with max_requests = 1 and queue_size = 1, over backend counts
\* that do and do not divide the range of the cursor.
WrapFiles ==
    { << AppDecl("api", <<"*", ".", "x">>, n, 1, 1) >> :
        n \in 1..MaxWrapBackends }

\* One tenant with one backend and a buffer of one, with and without a
\* running slot.
LiveFiles ==
    { << AppDecl("api", <<"*", ".", "x">>, 1, c, 1) >> : c \in 0..1 }

\* A table whose text toml.DecodeFile rejects.
Undecodable(d) == [d EXCEPT !.decodes = FALSE]

\* The contents the config file takes while the program runs: the boot
\* file, an edit of the backend list that keeps max_requests, and edits with
\* an unclosed bracket in server_name, a backend URL without scheme, a
\* table that does not decode, a second table with a bad pattern, another
\* load_balance value, and an empty backend list.
BootFile ==
    << AppTable("api", <<"*", ".", "x">>, <<"b1", "b2">>, 1, 1, "round_robin") >>

EditBackends ==
    << AppTable("api", <<"*", ".", "x">>, <<"b3">>, 1, 1, "round_robin") >>

EditBadGlob ==
    << AppTable("api", <<"[", ".", "x">>, <<"b3">>, 1, 1, "round_robin") >>

EditBadUrl ==
    << AppTable("api", <<"*", ".", "x">>, <<":b">>, 1, 1, "round_robin") >>

EditGarbled ==
    << Undecodable(AppTable("api", <<"*", ".", "x">>, <<"b3">>, 1, 1,
                            "round_robin")) >>

EditSecondBad ==
    << AppTable("api", <<"*", ".", "x">>, <<"b3">>, 1, 1, "round_robin"),
       AppTable("admin", <<"[", ".", "x">>, <<"b4">>, 1, 0, "round_robin") >>

EditRandom ==
    << AppTable("api", <<"*", ".", "x">>, <<"b3">>, 1, 1, "random") >>

EditNoBackends ==
    << AppTable("api", <<"*", ".", "x">>, <<>>, 1, 1, "round_robin") >>

\* Edits that loadConfig rejects, among sound ones.
ReloadFiles ==
    { BootFile, EditBackends, EditBadGlob, EditBadUrl, EditGarbled,
      EditSecondBad }

\* Edits with a value the program's documentation excludes.
PublishFiles == { BootFile, EditRandom, EditNoBackends }

\* The next content of the file: any edit of a sound file, and a sound file
\* after any other.
Edits(f, files) ==
    IF f \in {BootFile, EditBackends} THEN files
    ELSE files \cap {BootFile, EditBackends}

\* The Host headers of the traffic while the file is edited: one that the
\* tenant's pattern matches and one that no pattern matches.
ReloadHosts == { AllHosts[1], AllHosts[3] }

\* The tables of a file whose pattern matches a host.
MatchSet(f, h) == { i \in 1..Len(f) : Match(f[i].ServerName, h) }

\* One Host header for each class of hosts that the patterns of the file
\* cannot tell apart.
HostsOf(f) ==
    { AllHosts[i] : i \in { j \in 1..Len(AllHosts) :
        \A k \in 1..(j - 1) :
            MatchSet(f, AllHosts[k]) # MatchSet(f, AllHosts[j]) } }

Traffic ==
    [f \in Files \cup ScenarioFiles \cup RouteFiles \cup ReloadFiles
            \cup PublishFiles \cup WrapFiles \cup LiveFiles |->
        IF f \in ReloadFiles \cup PublishFiles THEN ReloadHosts
        ELSE HostsOf(f)]

\* loadConfig: one App object per [apps.*] table, channels empty, the cursor
\* zero, and its queueWorker started (about to receive).
NewApp(d) ==
    [ServerName |-> d.ServerName, Backends |-> d.Backends,
     MaxRequests |-> d.MaxRequests, QueueSize |-> d.QueueSize,
     LoadBalance |-> d.LoadBalance,
     currentIndex |-> 0, semaphore |-> 0, requestQueue |-> <<>>,
     wpc |-> "recv", reqPair |-> NoReq]

Ptr(gen, name) == <<gen, name>>

loadConfig(f, gen) ==
    [p \in {Ptr(gen, f[i].name) : i \in 1..Len(f)} |->
        NewApp(f[CHOOSE i \in 1..Len(f) : f[i].name = p[2]])]

ConfigOf(f, gen) ==
    [n \in {f[i].name : i \in 1..Len(f)} |-> Ptr(gen, n)]

\* main.go 116-118: toml.DecodeFile fails on a file with a table it cannot
\* decode.
DecodeFile(f) == \A i \in 1..Len(f) : f[i].decodes

\* main.go 121-124: glob.Compile rejects a pattern with an unclosed bracket.
GlobCompiles(pat) ==
    \A i \in 1..Len(pat) :
        pat[i] = "[" => \E j \in (i + 1)..Len(pat) : pat[j] = "]"

\* main.go 129-132: url.Parse rejects a URL that starts with a colon
\* ("missing protocol scheme").
UrlParses(b) == b \notin {":b"}

\* The checks loadConfig makes on one table; it makes no other.
TableLoads(d) ==
    /\ GlobCompiles(d.ServerName)
    /\ \A k \in 1..Len(d.Backends) : UrlParses(d.Backends[k])

\* loadConfig returns a *Config and no error.
LoadOk(f) == DecodeFile(f) /\ \A i \in 1..Len(f) : TableLoads(f[i])

\* The Apps a failing loadConfig has built, and started the queueWorker of
\* (main.go 165-167), when it returns its error: none when the file does
\* not decode; otherwise the tables that `range cfg.Apps` visited before
\* the first one it rejects, which in Go's unspecified map order is any set
\* of the tables that load.
PartialBuilds(f) ==
    IF DecodeFile(f)
    THEN SUBSET { f[i].name : i \in { j \in 1..Len(f) : TableLoads(f[j]) } }
    ELSE { {} }

loadPartial(f, gen, built) ==
    [p \in {Ptr(gen, n) : n \in built} |-> loadConfig(f, gen)[p]]

\* ------------------------------------------------------------------- Init
Boot(f) ==
    /\ file = f
    /\ apps = loadConfig(f, 0)
    /\ config = ConfigOf(f, 0)
    /\ reqs = <<>>
    /\ watchLog = <<>>
    /\ dispatched = [p \in DOMAIN loadConfig(f, 0) |-> <<>>]
    /\ sawFull = {}

Init ==
    /\ \E f \in Files : Boot(f)
    /\ toArrive = MaxReqs

InitScenario ==
    /\ \E f \in ScenarioFiles : Boot(f)
    /\ toArrive = MaxScenarioReqs

InitRoute ==
    /\ \E f \in RouteFiles : Boot(f)
    /\ toArrive = MaxRouteReqs

\* ---------------------------------------------------------------- helpers
Reqs == 1..Len(reqs)

SetReq(r, fields) == [reqs EXCEPT ![r] = fields @@ reqs[r]]


\* A semaphore that admits one sender more than its capacity.
SemHasRoomOffByOne(a) == apps[a].semaphore <= apps[a].MaxRequests

\* A channel send that does not block: the buffer has room.  (No receiver is
\* ever parked on the semaphore: a release follows an acquire, so a token
\* is there for it.)
SemHasRoom(a) == apps[a].semaphore < apps[a].MaxRequests

QueueHasRoom(a) == Len(apps[a].requestQueue) < apps[a].QueueSize

\* uint32 arithmetic, at the model's width.
Wrap(n) == n % (2 ^ CounterBits)

\* An add that returns the value before the increment, not stored back.
FetchUint32(a) == apps[a].currentIndex

\* atomic.AddUint32(&app.currentIndex, 1) returns the new value.
AddUint32(a) == Wrap(apps[a].currentIndex + 1)

\* A selection from the backend list of the tenant's App in the current
\* snapshot, not from the App the request holds.
BackendAtCurrent(a, index) ==
    LET cur == IF a[2] \in DOMAIN config THEN config[a[2]] ELSE a IN
    apps[cur].Backends[(index % Len(apps[cur].Backends)) + 1]

\* app.backendUrls[index % uint32(len(app.backendUrls))]
BackendAt(a, index) == apps[a].Backends[(index % Len(apps[a].Backends)) + 1]

\* The apps of cfg.Apps whose compiled glob matches the Host header.
Matching(host) ==
    { n \in DOMAIN config : Match(apps[config[n]].ServerName, host) }

\* A loop that takes an app whether or not its glob matches.
RangeAnyApp(host) == DOMAIN config

\* `for _, app := range cfg.Apps`: Go iterates a map in an unspecified
\* order, so the first match found is any of the matching apps.
RangeFirstMatch(host) == Matching(host)

\* ----------------------------------------------------------- occupancy
\* The requests of an App that are inside proxy.ServeHTTP.
Running(a) ==
    { r \in Reqs : reqs[r].app = a /\ reqs[r].pc \in {"proxying", "panic"} }

\* The requests of an App that hold a slot of its semaphore.
Holding(a) ==
    { r \in Reqs : reqs[r].app = a
                    /\ reqs[r].pc \in {"acquired", "proxying", "panic"} }

\* The requests of an App that were accepted for waiting and hold no slot
\* yet: in requestQueue, or in the worker's reqPair.
Waiting(a) == { r \in Reqs : reqs[r].app = a /\ reqs[r].pc = "waiting" }

GateFull(a) ==
    /\ Cardinality(Running(a)) = apps[a].MaxRequests
    /\ Cardinality(Waiting(a)) = apps[a].QueueSize

\* -------------------------------------------------------- requestHandler
\* The handler goroutine of a new request, as net/http starts it.
NewReq(m, h) ==
    [method |-> m, host |-> h, pc |-> "start", app |-> NoApp,
     resp |-> "none", hret |-> FALSE, queued |-> FALSE]

Arrived(m, h, fields) == Append(reqs, fields @@ NewReq(m, h))

\* An OPTIONS check placed after host resolution: 404 when no app matches.
OptionsAfterRouting(h) ==
    /\ toArrive > 0
    /\ toArrive' = toArrive - 1
    /\ reqs' = Arrived("OPTIONS", h,
                       [pc |-> "done", hret |-> TRUE,
                        resp |-> IF Matching(h) = {} THEN "404" ELSE "204"])
    /\ UNCHANGED <<file, watchLog, apps, config, dispatched, sawFull>>

\* main.go 196-208: the OPTIONS side door.
Options(h) ==
    /\ toArrive > 0
    /\ toArrive' = toArrive - 1
    /\ reqs' = Arrived("OPTIONS", h,
                       [pc |-> "done", resp |-> "204", hret |-> TRUE])
    /\ UNCHANGED <<file, watchLog, apps, config, dispatched, sawFull>>

\* main.go 210-225: no app matches the Host header.
NotFound(m, h) ==
    /\ toArrive > 0
    /\ toArrive' = toArrive - 1
    /\ m # "OPTIONS"
    /\ RangeFirstMatch(h) = {}
    /\ reqs' = Arrived(m, h, [pc |-> "done", resp |-> "404", hret |-> TRUE])
    /\ UNCHANGED <<file, watchLog, apps, config, dispatched, sawFull>>

\* main.go 210-233: an app matches; the body is read (or the read fails).
Resolve(m, h, bodyOk) ==
    /\ toArrive > 0
    /\ toArrive' = toArrive - 1
    /\ m # "OPTIONS"
    /\ \E n \in RangeFirstMatch(h) :
          IF bodyOk
          THEN /\ reqs' = Arrived(m, h, [pc |-> "matched", app |-> config[n]])
               /\ sawFull' = IF GateFull(config[n])
                             THEN sawFull \cup {Len(reqs) + 1} ELSE sawFull
          ELSE /\ reqs' = Arrived(m, h, [pc |-> "done", app |-> config[n],
                                         resp |-> "500", hret |-> TRUE])
               /\ UNCHANGED sawFull
    /\ UNCHANGED <<file, watchLog, apps, config, dispatched>>

\* main.go 236-243: select { case semaphore <- struct{}{}: ... default: }
TrySemaphore(r) ==
    LET a == reqs[r].app IN
    /\ reqs[r].pc = "matched"
    /\ IF SemHasRoom(a)
       THEN /\ apps' = [apps EXCEPT ![a].semaphore = @ + 1]
            /\ reqs' = SetReq(r, [pc |-> "acquired"])
       ELSE /\ reqs' = SetReq(r, [pc |-> "tryq"])
            /\ UNCHANGED apps
    /\ UNCHANGED <<file, watchLog, config, dispatched, toArrive, sawFull>>

\* main.go 246-252: select { case requestQueue <- requestPair{...}: return
\*                           default: 503 }
\* The send goes straight to the worker when it is parked in its receive,
\* into the buffer when there is room, and fails otherwise.
TryQueue(r) ==
    LET a == reqs[r].app IN
    /\ reqs[r].pc = "tryq"
    /\ IF apps[a].wpc = "recv_wait"
       THEN /\ apps' = [apps EXCEPT ![a].reqPair = r, ![a].wpc = "send"]
            /\ reqs' = SetReq(r, [pc |-> "waiting", queued |-> TRUE])
       ELSE IF QueueHasRoom(a)
       THEN /\ apps' = [apps EXCEPT ![a].requestQueue = Append(@, r)]
            /\ reqs' = SetReq(r, [pc |-> "waiting", queued |-> TRUE])
       ELSE /\ reqs' = SetReq(r, [pc |-> "done", resp |-> "503",
                                  hret |-> TRUE])
            /\ UNCHANGED apps
    /\ UNCHANGED <<file, watchLog, config, dispatched, toArrive, sawFull>>

\* main.go 248: the handler of an enqueued request returns.  net/http then
\* completes the response: if nothing was written, the client gets an
\* empty 200.
HandlerReturn(r) ==
    /\ reqs[r].queued
    /\ ~reqs[r].hret
    /\ reqs' = SetReq(r, [hret |-> TRUE,
                          resp |-> IF reqs[r].resp = "none" THEN "200-empty"
                                   ELSE reqs[r].resp])
    /\ UNCHANGED <<file, watchLog, apps, config, dispatched, toArrive, sawFull>>

\* ------------------------------------------------------------ queueWorker
\* main.go 257: reqPair := <-app.requestQueue
WorkerRecv(a) ==
    /\ apps[a].wpc = "recv"
    /\ IF apps[a].requestQueue # <<>>
       THEN apps' = [apps EXCEPT ![a].reqPair = Head(apps[a].requestQueue),
                                 ![a].requestQueue = Tail(@),
                                 ![a].wpc = "send"]
       ELSE apps' = [apps EXCEPT ![a].wpc = "recv_wait"]
    /\ UNCHANGED <<file, watchLog, config, reqs, dispatched, toArrive, sawFull>>

\* main.go 258-263: app.semaphore <- struct{}{} ; go func(rp) {...}(reqPair)
WorkerAcquire(a) ==
    /\ apps[a].wpc = "send"
    /\ IF SemHasRoom(a)
       THEN /\ apps' = [apps EXCEPT ![a].semaphore = @ + 1,
                                    ![a].reqPair = NoReq, ![a].wpc = "recv"]
            /\ reqs' = SetReq(apps[a].reqPair, [pc |-> "acquired"])
       ELSE /\ apps' = [apps EXCEPT ![a].wpc = "send_wait"]
            /\ UNCHANGED reqs
    /\ UNCHANGED <<file, watchLog, config, dispatched, toArrive, sawFull>>

\* ------------------------------------------------------ proxy.ServeHTTP
\* An increment that is a separate load and store: when another dispatch of
\* the same App is under way, both read the same value and one update is
\* lost.
getNextBackendRacy(r) ==
    LET a == reqs[r].app
        index == AddUint32(a)
        lost == \E q \in Reqs \ {r} :
                    reqs[q].app = a /\ reqs[q].pc = "acquired" IN
    /\ apps' = [apps EXCEPT ![a].currentIndex = IF lost THEN @ ELSE index]
    /\ reqs' = SetReq(r, [pc |-> "proxying"])
    /\ dispatched' = [dispatched EXCEPT ![a] =
          Append(@, [req |-> r, index |-> index,
                     target |-> BackendAt(a, index),
                     logged |-> Len(watchLog)])]

\* directorFunc (main.go 173-182) calls getNextBackend (190-193).  With an
\* empty backendUrls the modulo at line 192 divides by zero, after the
\* increment: a run-time panic inside proxy.ServeHTTP.
getNextBackend(r) ==
    LET a == reqs[r].app
        index == AddUint32(a) IN
    /\ apps' = [apps EXCEPT ![a].currentIndex = index]
    /\ IF apps[a].Backends = <<>>
       THEN /\ reqs' = SetReq(r, [pc |-> "panic"])
            /\ UNCHANGED dispatched
       ELSE /\ reqs' = SetReq(r, [pc |-> "proxying"])
            /\ dispatched' = [dispatched EXCEPT ![a] =
                  Append(@, [req |-> r, index |-> index,
                             target |-> BackendAt(a, index),
                             logged |-> Len(watchLog)])]

\* main.go 239-240 / 261-262: the request enters proxy.ServeHTTP.
Dispatch(r) ==
    /\ reqs[r].pc = "acquired"
    /\ getNextBackend(r)
    /\ UNCHANGED <<file, watchLog, config, toArrive, sawFull>>

\* What the client has received once the proxied exchange has written its
\* answer: the backend's response, or the 502 of errorHandlerFunc
\* (main.go 184-188).  A write to the ResponseWriter of a handler that has
\* returned does not reach the client: its response is already complete.
\* (The request's context is cancelled when its handler returns, so the
\* exchange of a queued request may fail for that reason alone: both
\* outcomes stay possible for every request.)
Written(r, ok) ==
    IF reqs[r].hret THEN reqs[r].resp
    ELSE IF ok THEN "backend" ELSE "502"

\* A release that is skipped when the exchange fails.
FinishLeaky(r, ok) ==
    LET a == reqs[r].app
        w == apps[a].reqPair
        done == SetReq(r, [pc |-> "done",
                           resp |-> IF reqs[r].hret THEN reqs[r].resp
                                    ELSE IF ok THEN "backend" ELSE "502",
                           hret |-> reqs[r].hret \/ ~reqs[r].queued]) IN
    /\ reqs[r].pc = "proxying"
    /\ apps[a].semaphore > 0
    /\ IF ~ok
       THEN /\ reqs' = done
            /\ UNCHANGED apps
       ELSE IF apps[a].wpc = "send_wait"
       THEN /\ apps' = [apps EXCEPT ![a].reqPair = NoReq, ![a].wpc = "recv"]
            /\ reqs' = [done EXCEPT ![w].pc = "acquired"]
       ELSE /\ apps' = [apps EXCEPT ![a].semaphore = @ - 1]
            /\ reqs' = done
    /\ sawFull' = sawFull
    /\ UNCHANGED <<file, watchLog, config, dispatched, toArrive>>

\* proxy.ServeHTTP returns and the deferred `<-semaphore` runs
\* (main.go 238 / 260).  When the worker is parked in its send the buffer is
\* full: the receive takes a token and the worker's token enters the buffer
\* in the same step, so the worker's request holds the slot at once.  The
\* handler of a directly admitted request returns here.
Finish(r, ok) ==
    LET a == reqs[r].app
        w == apps[a].reqPair
        done == SetReq(r, [pc |-> "done", resp |-> Written(r, ok),
                           hret |-> reqs[r].hret \/ ~reqs[r].queued]) IN
    /\ reqs[r].pc = "proxying"
    /\ apps[a].semaphore > 0
    /\ IF apps[a].wpc = "send_wait"
       THEN /\ apps' = [apps EXCEPT ![a].reqPair = NoReq, ![a].wpc = "recv"]
            /\ reqs' = [done EXCEPT ![w].pc = "acquired"]
       ELSE /\ apps' = [apps EXCEPT ![a].semaphore = @ - 1]
            /\ reqs' = done
    /\ sawFull' = { q \in sawFull : reqs[q].app # a
                                     \/ reqs[q].pc \notin {"matched", "tryq"} }
    /\ UNCHANGED <<file, watchLog, config, dispatched, toArrive>>

\* The panic of getNextBackend unwinds in a handler goroutine: the deferred
\* `<-semaphore` runs (main.go 238) as in Finish, then net/http recovers the
\* panic and drops the connection.
PanicRecovered(r) ==
    LET a == reqs[r].app
        w == apps[a].reqPair
        done == SetReq(r, [pc |-> "done", hret |-> TRUE, resp |-> "aborted"]) IN
    /\ reqs[r].pc = "panic"
    /\ ~reqs[r].queued
    /\ IF apps[a].wpc = "send_wait"
       THEN /\ apps' = [apps EXCEPT ![a].reqPair = NoReq, ![a].wpc = "recv"]
            /\ reqs' = [done EXCEPT ![w].pc = "acquired"]
       ELSE /\ apps' = [apps EXCEPT ![a].semaphore = @ - 1]
            /\ reqs' = done
    /\ UNCHANGED <<file, watchLog, config, dispatched, toArrive, sawFull>>

\* The panic of getNextBackend unwinds in the goroutine that queueWorker
\* started (main.go 259): nothing recovers it, and the process exits with
\* every goroutine, channel and connection it had.
PanicExit(r) ==
    /\ reqs[r].pc = "panic"
    /\ reqs[r].queued
    /\ reqs' = [q \in Reqs |->
          [reqs[q] EXCEPT
              !.pc = "done", !.hret = TRUE,
              !.resp = IF q = r THEN "crash"
                       ELSE IF reqs[q].resp = "none" THEN "reset"
                       ELSE reqs[q].resp]]
    /\ apps' = [p \in DOMAIN apps |->
          [apps[p] EXCEPT !.semaphore = 0, !.requestQueue = <<>>,
                          !.reqPair = NoReq, !.wpc = "exited"]]
    /\ toArrive' = 0
    /\ sawFull' = {}
    /\ UNCHANGED <<file, watchLog, config, dispatched>>

\* The process has exited on an unrecovered panic.
Crashed == \E r \in Reqs : reqs[r].resp = "crash"

\* ------------------------------------------------------------ watchConfig
\* The generation of the Apps the next loadConfig builds: boot is 0.
NextGen == Len(watchLog) + 1

\* A reload that stores what loadConfig had built when it failed.
ReloadStoresPartial(g) ==
    /\ ~Crashed
    /\ toArrive > 0
    /\ toArrive' = toArrive - 1
    /\ file' = g
    /\ \E built \in (IF LoadOk(g) THEN {{ g[i].name : i \in 1..Len(g) }}
                     ELSE PartialBuilds(g)) :
          /\ apps' = loadPartial(g, NextGen, built) @@ apps
          /\ config' = [n \in built |-> Ptr(NextGen, n)]
          /\ dispatched' =
                [p \in DOMAIN loadPartial(g, NextGen, built) |-> <<>>]
                    @@ dispatched
    /\ watchLog' = Append(watchLog,
          [at |-> Len(reqs),
           line |-> IF LoadOk(g) THEN "stored" ELSE "Config reload failed"])
    /\ UNCHANGED <<reqs, sawFull>>

\* main.go 283-293: the file is written with content g and watchConfig
\* handles the Write event: loadConfig(path), then config.Store(newCfg), or
\* on an error the log line and `continue`.
Reload(g) ==
    /\ ~Crashed
    /\ toArrive > 0
    /\ toArrive' = toArrive - 1
    /\ file' = g
    /\ IF LoadOk(g)
       THEN /\ apps' = loadConfig(g, NextGen) @@ apps
            /\ config' = ConfigOf(g, NextGen)
            /\ dispatched' =
                  [p \in DOMAIN loadConfig(g, NextGen) |-> <<>>] @@ dispatched
       ELSE /\ \E built \in PartialBuilds(g) :
                  /\ apps' = loadPartial(g, NextGen, built) @@ apps
                  /\ dispatched' =
                        [p \in DOMAIN loadPartial(g, NextGen, built) |-> <<>>]
                            @@ dispatched
            /\ UNCHANGED config
    /\ watchLog' = Append(watchLog,
          [at |-> Len(reqs),
           line |-> IF LoadOk(g) THEN "stored" ELSE "Config reload failed"])
    /\ UNCHANGED <<reqs, sawFull>>

\* ------------------------------------------------------------------- Next
Next ==
    \/ \E h \in Traffic[file] : Options(h)
    \/ \E m \in Methods, h \in Traffic[file] : NotFound(m, h)
    \/ \E m \in Methods, h \in Traffic[file], bodyOk \in BOOLEAN :
          Resolve(m, h, bodyOk)
    \/ \E r \in Reqs : TrySemaphore(r)
    \/ \E r \in Reqs : TryQueue(r)
    \/ \E r \in Reqs : HandlerReturn(r)
    \/ \E a \in DOMAIN apps : WorkerRecv(a)
    \/ \E a \in DOMAIN apps : WorkerAcquire(a)
    \/ \E r \in Reqs : Dispatch(r)
    \/ \E r \in Reqs, ok \in BOOLEAN : Finish(r, ok)

Spec == Init /\ [][Next]_vars

SpecScenario == InitScenario /\ [][Next]_vars

SpecRoute == InitRoute /\ [][Next]_vars

\* The program with its config file edited while it serves.
InitReload ==
    /\ Boot(BootFile)
    /\ toArrive = MaxReloadEvents

\* The steps of the requests that resolved to an App, and of the workers.
Serve ==
    \/ \E r \in Reqs : TrySemaphore(r)
    \/ \E r \in Reqs : TryQueue(r)
    \/ \E r \in Reqs : HandlerReturn(r)
    \/ \E a \in DOMAIN apps : WorkerRecv(a)
    \/ \E a \in DOMAIN apps : WorkerAcquire(a)
    \/ \E r \in Reqs : Dispatch(r)
    \/ \E r \in Reqs, ok \in BOOLEAN : Finish(r, ok)

\* GET requests whose body arrives whole.
Arrive ==
    \/ \E h \in Traffic[file] : NotFound("GET", h)
    \/ \E h \in Traffic[file] : Resolve("GET", h, TRUE)

NextReload ==
    \/ Arrive
    \/ Serve
    \/ \E g \in Edits(file, ReloadFiles) : Reload(g)

SpecReload == InitReload /\ [][NextReload]_vars

\* The program after any number of dispatches: the cursor of the tenant's
\* App has any value of its range, every earlier request is finished, and
\* the dispatch log starts here.
InitWrap ==
    \E f \in WrapFiles : \E c \in 0..(2 ^ CounterBits - 1) :
        /\ file = f
        /\ apps = [loadConfig(f, 0) EXCEPT ![Ptr(0, "api")].currentIndex = c]
        /\ config = ConfigOf(f, 0)
        /\ reqs = <<>>
        /\ watchLog = <<>>
        /\ dispatched = [p \in DOMAIN loadConfig(f, 0) |-> <<>>]
        /\ sawFull = {}
        /\ toArrive = MaxWrapReqs

NextWrap ==
    \/ Arrive
    \/ Serve

SpecWrap == InitWrap /\ [][NextWrap]_vars

InitLive ==
    /\ \E f \in LiveFiles : Boot(f)
    /\ toArrive = MaxLiveReqs

\* Requests of the tenant only: a 404 touches nothing a waiter depends on.
NextLive ==
    \/ \E h \in Traffic[file] : Resolve("GET", h, TRUE)
    \/ Serve

\* The Go scheduler keeps running goroutines that can run: a queueWorker
\* that can take a step takes one, and so do the goroutines that handle
\* requests and those inside proxy.ServeHTTP, where every exchange ends.
\* Nothing makes a request arrive.
LiveFairness ==
    /\ WF_vars(\E a \in DOMAIN apps : WorkerRecv(a) \/ WorkerAcquire(a))
    /\ WF_vars(\E r \in Reqs : \/ TrySemaphore(r)
                               \/ TryQueue(r)
                               \/ HandlerReturn(r))
    /\ WF_vars(\E r \in Reqs : \/ Dispatch(r)
                               \/ \E ok \in BOOLEAN : Finish(r, ok))

SpecLive == InitLive /\ [][NextLive]_vars /\ LiveFairness

\* The program with a watched config file, its goroutines scheduled fairly.
SpecRetire == InitReload /\ [][NextReload]_vars /\ LiveFairness

\* The same, with edits that loadConfig does not reject.
NextPublish ==
    \/ Arrive
    \/ Serve
    \/ \E r \in Reqs : PanicRecovered(r)
    \/ \E r \in Reqs : PanicExit(r)
    \/ \E g \in Edits(file, PublishFiles) : Reload(g)

SpecPublish == InitReload /\ [][NextPublish]_vars


\* ================================================================ claims
Apps == DOMAIN apps

\* C1: for every tenant runtime, in every reachable state, the number of
\* requests waiting (in requestQueue or taken by the worker and not yet
\* dispatched) plus the number running (inside proxy.ServeHTTP) is at most
\* max_requests + queue_size.
C1_WaitingPlusRunningBound ==
    \A a \in Apps :
        Cardinality(Waiting(a)) + Cardinality(Running(a))
            <= apps[a].MaxRequests + apps[a].QueueSize

\* C2: for every tenant runtime, in every reachable state, at most
\* max_requests requests are inside proxy.ServeHTTP, whichever way they were
\* admitted; with max_requests = 0 no request is ever forwarded.
C2_RunningBound ==
    \A a \in Apps :
        /\ Cardinality(Running(a)) <= apps[a].MaxRequests
        /\ apps[a].MaxRequests = 0 => dispatched[a] = <<>>

\* C2 witness: a tenant with max_requests = 1 has forwarded a request that
\* requestHandler admitted and now has inside proxy.ServeHTTP a request
\* that queueWorker admitted.
C2_Witness ==
    \E a \in Apps :
        /\ apps[a].MaxRequests = 1
        /\ Cardinality(Running(a)) = 1
        /\ \E r \in Running(a) : reqs[r].queued
        /\ \E q \in Reqs : /\ reqs[q].app = a /\ ~reqs[q].queued
                            /\ reqs[q].pc = "done"
                            /\ reqs[q].resp \in {"backend", "502"}

\* C3: for every tenant runtime, in every reachable state, the number of
\* requests accepted for waiting that hold no running slot yet (the one the
\* worker holds while it blocks on the semaphore included) is at most
\* queue_size, also for queue_size = 0.
C3_WaitingBound ==
    \A a \in Apps : Cardinality(Waiting(a)) <= apps[a].QueueSize

\* C4: a non-OPTIONS request that arrives while its tenant has max_requests
\* requests running and queue_size waiting, none of which completes while
\* the arrival is handled, is answered 503 and is never forwarded: once its
\* handler is past the two selects, the request is done with a 503.
C4_FailFast ==
    \A r \in sawFull :
        \/ reqs[r].pc \in {"matched", "tryq"}
        \/ reqs[r].pc = "done" /\ reqs[r].resp = "503"

Obtained(a) == { dispatched[a][j].index : j \in 1..Len(dispatched[a]) }

\* The backends selected by the calls that obtained the n counter values
\* from c on.
Window(a, c) ==
    { dispatched[a][j].target :
        j \in { k \in 1..Len(dispatched[a]) :
                  /\ dispatched[a][k].index >= c
                  /\ dispatched[a][k].index < c + Len(apps[a].Backends) } }

\* C6: under any interleaving of the dispatches of one tenant runtime, the
\* calls of getNextBackend obtain pairwise distinct counter values, the m
\* values obtained are m consecutive integers, and any n selections that
\* are consecutive in counter order hit each of the n backends once.
C6_DistinctConsecutive ==
    \A a \in Apps :
        LET m == Len(dispatched[a])
            n == Len(apps[a].Backends) IN
        /\ \A i, j \in 1..m :
              i # j => dispatched[a][i].index # dispatched[a][j].index
        /\ Obtained(a) = 1..m
        /\ \A c \in 1..m :
              c + n - 1 <= m =>
                  /\ Window(a, c) = { apps[a].Backends[k] : k \in 1..n }
                  /\ \A i, j \in 1..m :
                        /\ i # j
                        /\ dispatched[a][i].index \in c..(c + n - 1)
                        /\ dispatched[a][j].index \in c..(c + n - 1)
                        => dispatched[a][i].target # dispatched[a][j].target

\* C6 witness: two dispatches of one tenant with two backends were under way
\* at the same time, and the later arrival called getNextBackend first.
C6_Witness ==
    \E a \in Apps :
        /\ Len(apps[a].Backends) = 2
        /\ Len(dispatched[a]) >= 2
        /\ dispatched[a][1].req > dispatched[a][2].req
        /\ Cardinality(Running(a)) = 2

\* The requests that were admitted: they got a slot at once or were queued.
Accepted(r) ==
    \/ reqs[r].queued
    \/ reqs[r].pc \in {"acquired", "proxying"}
    \/ reqs[r].pc = "done" /\ reqs[r].app # NoApp
                           /\ reqs[r].resp \notin {"500", "503"}

\* C7: the response an accepted request's client receives is the one the
\* backend exchange produced (the backend's, or the 502 of the exchange's
\* failure), and the response of a queued request is not completed by
\* requestHandler returning before queueWorker has forwarded the request
\* and the exchange has written its answer.
C7_QueuedGetBackendAnswer ==
    \A r \in Reqs :
        Accepted(r) =>
            /\ reqs[r].hret => reqs[r].resp \in {"backend", "502"}
            /\ reqs[r].queued /\ reqs[r].hret => reqs[r].pc = "done"

\* The first table of the file, in declared order, whose pattern matches.
FirstDeclared(h) ==
    file[CHOOSE i \in MatchSet(file, h) :
            \A j \in MatchSet(file, h) : i <= j].name

\* C8: a request whose Host matches the patterns of several tenants is
\* resolved to the first matching tenant in the order of declaration.
C8_FirstMatchInDeclaredOrder ==
    \A r \in Reqs :
        reqs[r].app # NoApp => reqs[r].app = config[FirstDeclared(reqs[r].host)]

\* The request that arrives in this step, if one does.
Arriving == Len(reqs') = Len(reqs) + 1

Newest == reqs'[Len(reqs')]

\* The requests a getNextBackend call was made for.
Forwarded ==
    UNION { { dispatched[a][k].req : k \in 1..Len(dispatched[a]) } : a \in Apps }

\* C9: a non-OPTIONS request whose Host matches no tenant pattern is
\* answered 404 and leaves every tenant's semaphore, wait queue and cursor
\* (the worker and the dispatch log with them) unchanged; it is never
\* forwarded.
C9_NotFoundLeavesGatesAlone ==
    /\ [][ (Arriving /\ Newest.method # "OPTIONS"
                     /\ Matching(Newest.host) = {})
             => /\ Newest.resp = "404" /\ Newest.pc = "done"
                /\ Newest.app = NoApp
                /\ UNCHANGED <<apps, dispatched, config>> ]_vars
    /\ [](\A r \in Reqs : reqs[r].resp = "404" =>
              reqs[r].pc = "done" /\ r \notin Forwarded)

\* C9 witness: a request whose Host matches no pattern was answered 404
\* while a tenant's semaphore held a token.
C9_Witness ==
    \E r \in Reqs :
        /\ reqs[r].resp = "404"
        /\ reqs[r].method = "GET"
        /\ Matching(reqs[r].host) = {}
        /\ \E a \in Apps : apps[a].semaphore > 0

\* C10: an OPTIONS request is answered 204 whatever its Host and whatever
\* the state of the gates, and handling it leaves every tenant's semaphore,
\* wait queue and cursor unchanged and contacts no backend.
C10_OptionsBypass ==
    /\ [][ (Arriving /\ Newest.method = "OPTIONS")
             => /\ Newest.resp = "204" /\ Newest.pc = "done"
                /\ Newest.app = NoApp
                /\ UNCHANGED <<apps, dispatched, config>> ]_vars
    /\ [](\A r \in Reqs : reqs[r].method = "OPTIONS" =>
              reqs[r].pc = "done" /\ r \notin Forwarded)

\* C10 witness: an OPTIONS request whose Host matches no tenant has been
\* answered 204, after the arrival of a request that is running in a tenant
\* with max_requests running and queue_size waiting.
C10_Witness ==
    \E r \in Reqs :
        /\ reqs[r].method = "OPTIONS"
        /\ reqs[r].resp = "204"
        /\ Matching(reqs[r].host) = {}
        /\ \E a \in Apps : /\ apps[a].MaxRequests > 0 /\ GateFull(a)
                            /\ \E q \in Running(a) : q < r

\* ------------------------------------------------------------ hot reload
\* The Apps of the current snapshot.
Published == { config[n] : n \in DOMAIN config }

\* watchConfig handles a Write event in this step.
Reloading == Len(watchLog') = Len(watchLog) + 1

\* The generation of the snapshot that the last successful load stored.
LastStored ==
    LET stored == { i \in 1..Len(watchLog) : watchLog[i].line = "stored" } IN
    IF stored = {} THEN 0
    ELSE CHOOSE i \in stored : \A j \in stored : j <= i

\* An App that loadConfig built to the end of its loop body.
FullyBuilt(a) ==
    /\ a \in DOMAIN apps
    /\ GlobCompiles(apps[a].ServerName)
    /\ \A k \in 1..Len(apps[a].Backends) : UrlParses(apps[a].Backends[k])

\* C11: a reload whose file fails to load logs the failure and changes
\* neither the current snapshot nor any App, request or dispatch there is;
\* the current snapshot is always the one the last successful load stored
\* (the boot snapshot if none), whole: every table of it fully built; and a
\* request that arrives resolves to an App of that snapshot.
C11_FailedReloadKeepsSnapshot ==
    /\ [][ (Reloading /\ ~LoadOk(file'))
             => /\ config' = config
                /\ \A a \in DOMAIN apps : apps'[a] = apps[a]
                /\ \A a \in DOMAIN dispatched : dispatched'[a] = dispatched[a]
                /\ reqs' = reqs
                /\ watchLog'[Len(watchLog')].line = "Config reload failed"
          ]_vars
    /\ [][ (Arriving /\ Newest.app # NoApp) => Newest.app \in Published ]_vars
    /\ [](\A a \in Published : FullyBuilt(a) /\ a[1] = LastStored)
    /\ [](\A n \in DOMAIN config : config[n][2] = n)

\* C11 witness: a reload failed, a request that arrived after it resolved
\* to the boot snapshot's App, went to one of its backends and was answered
\* by it, and a later reload stored a new snapshot.
C11_Witness ==
    \E i, j \in 1..Len(watchLog) : \E r \in Reqs :
        /\ i < j
        /\ watchLog[i].line = "Config reload failed"
        /\ watchLog[j].line = "stored"
        /\ watchLog[i].at < r /\ r <= watchLog[j].at
        /\ reqs[r].app = Ptr(0, "api")
        /\ reqs[r].resp = "backend"
        /\ \E k \in 1..Len(dispatched[reqs[r].app]) :
              /\ dispatched[reqs[r].app][k].req = r
              /\ dispatched[reqs[r].app][k].target \in {"b1", "b2"}

\* C12: no snapshot is ever current in which a tenant's load_balance is
\* anything other than "round_robin".
C12_OnlyRoundRobinPublished ==
    \A a \in Published : apps[a].LoadBalance = "round_robin"

\* The backends of an App.
BackendsOf(a) == { apps[a].Backends[k] : k \in 1..Len(apps[a].Backends) }

\* C13: a request keeps the App it resolved to, which is an App of the
\* snapshot current at its arrival; every dispatch of an App is of a request
\* that holds it and goes to a backend of that App's own list; a reload
\* leaves the Apps there are untouched; and the end of an exchange takes a
\* token from the semaphore of the request's own App and changes no other
\* App.
C13_GenerationsIsolated ==
    /\ [][ \A r \in Reqs : reqs'[r].app = reqs[r].app ]_vars
    /\ [][ (Arriving /\ Newest.app # NoApp) =>
               /\ Newest.app \in Published
               /\ Newest.app[1] = LastStored ]_vars
    /\ [](\A a \in DOMAIN dispatched : \A k \in 1..Len(dispatched[a]) :
              /\ dispatched[a][k].target \in BackendsOf(a)
              /\ reqs[dispatched[a][k].req].app = a)
    /\ [][ Reloading => \A a \in DOMAIN apps : apps'[a] = apps[a] ]_vars
    /\ [][ \A r \in Reqs :
              (reqs[r].pc = "proxying" /\ reqs'[r].pc = "done") =>
                  /\ \A b \in DOMAIN apps \ {reqs[r].app} : apps'[b] = apps[b]
                  /\ \/ apps'[reqs[r].app].semaphore
                          = apps[reqs[r].app].semaphore - 1
                     \/ /\ apps[reqs[r].app].wpc = "send_wait"
                        /\ apps'[reqs[r].app].wpc = "recv"
                        /\ apps'[reqs[r].app].semaphore
                             = apps[reqs[r].app].semaphore ]_vars

\* C13 witness: a reload stored a snapshot with the backend list [b3]; a
\* request admitted under the boot snapshot was dispatched after that, to a
\* backend of the boot list, was answered by it and left the boot App's
\* semaphore empty; a request that arrived after the reload went to b3.
C13_Witness ==
    \E r, q \in Reqs :
        /\ Len(watchLog) = 1 /\ watchLog[1].line = "stored"
        /\ file = EditBackends
        /\ r <= watchLog[1].at /\ watchLog[1].at < q
        /\ reqs[r].app = Ptr(0, "api") /\ reqs[q].app = Ptr(1, "api")
        /\ reqs[r].resp = "backend" /\ reqs[r].pc = "done"
        /\ apps[Ptr(0, "api")].semaphore = 0
        /\ \E k \in 1..Len(dispatched[Ptr(0, "api")]) :
              /\ dispatched[Ptr(0, "api")][k].req = r
              /\ dispatched[Ptr(0, "api")][k].logged = 1
              /\ dispatched[Ptr(0, "api")][k].target \in {"b1", "b2"}
        /\ \E k \in 1..Len(dispatched[Ptr(1, "api")]) :
              /\ dispatched[Ptr(1, "api")][k].req = q
              /\ dispatched[Ptr(1, "api")][k].target = "b3"

\* C14: the tokens in an App's semaphore are as many as the requests that
\* hold a running slot of it (acquired, exchange not ended), whichever way
\* they acquired it and however earlier exchanges ended; so once no request
\* holds a slot the semaphore is empty.
C14_SlotsConserved ==
    \A a \in Apps :
        /\ apps[a].semaphore = Cardinality(Holding(a))
        /\ (\A r \in Reqs : reqs[r].app = a => reqs[r].pc = "done")
               => apps[a].semaphore = 0

\* C14 witness: of one tenant, a directly admitted request ended in a 502, a
\* queued request was forwarded by queueWorker and its exchange ended too,
\* and the semaphore is empty.
C14_Witness ==
    \E a \in Apps : \E r, q \in Reqs :
        /\ reqs[r].app = a /\ reqs[q].app = a
        /\ ~reqs[r].queued /\ reqs[r].pc = "done" /\ reqs[r].resp = "502"
        /\ reqs[q].queued /\ reqs[q].pc = "done" /\ q \in Forwarded
        /\ apps[a].semaphore = 0

\* The requests of a tenant, by name, that are inside proxy.ServeHTTP under
\* any snapshot.
RunningOfTenant(n) ==
    { r \in Reqs : /\ reqs[r].app # NoApp
                   /\ reqs[r].app[2] = n
                   /\ reqs[r].pc \in {"proxying", "panic"} }

\* C16: when every snapshot so far gave a tenant the same max_requests, the
\* requests of that tenant running at the same time, under all snapshots
\* together, are at most max_requests.
C16_BoundAcrossReload ==
    \A n \in DOMAIN config :
        (\A a \in DOMAIN apps :
            a[2] = n => apps[a].MaxRequests = apps[config[n]].MaxRequests)
        => Cardinality(RunningOfTenant(n)) <= apps[config[n]].MaxRequests

\* C17: every tenant of the current snapshot has a backend, and no call of
\* getNextBackend divides by zero.
C17_BackendsNonEmpty ==
    /\ \A a \in Published : apps[a].Backends # <<>>
    /\ \A r \in Reqs : reqs[r].pc # "panic"
                       /\ reqs[r].resp \notin {"aborted", "crash"}

\* C18: the requests the code has accepted and not finished (waiting, or
\* holding a running slot) are a set the canonical gate can hold: at most
\* queue_size of them hold no running slot and at most max_requests hold
\* one, so at most max_requests + queue_size in all.  (A run of the
\* canonical gate never has more requests between Proceed-to-be and done,
\* so with more the code has let proceed a request the gate rejects.)
C18_CanonicalGateCanFollow ==
    \A a \in Apps :
        /\ Cardinality(Holding(a)) <= apps[a].MaxRequests
        /\ Cardinality(Waiting(a) \cup Holding(a))
              <= apps[a].MaxRequests + apps[a].QueueSize

\* The backend after b in the cyclic order of an App's list.
CyclicSuccessor(a, b) ==
    LET n == Len(apps[a].Backends)
        i == CHOOSE k \in 1..n : apps[a].Backends[k] = b IN
    apps[a].Backends[(i % n) + 1]

\* C19: for every backend count, the dispatch that wraps currentIndex from
\* its largest value to 0 selects the cyclic successor of the backend that
\* the dispatch before it selected.
C19_CycleUnbrokenAtWrap ==
    \A a \in Apps : \A k \in 2..Len(dispatched[a]) :
        (dispatched[a][k - 1].index = 2 ^ CounterBits - 1
            /\ dispatched[a][k].index = 0)
        => dispatched[a][k].target
               = CyclicSuccessor(a, dispatched[a][k - 1].target)

\* C15, as claimed: under every configuration, when every exchange ends,
\* there comes a time from which every request that was placed in the wait
\* queue has been given a running slot and forwarded.
C15_NoWaiterStranded ==
    <>[](\A r \in Reqs : reqs[r].queued => r \in Forwarded)

\* While queueWorker is parked in its send, the only request that gains a
\* running slot is the one the worker holds: a release hands the slot to the
\* worker, and an arrival finds the semaphore full.
ParkedWorkerIsNext ==
    \A r \in Reqs :
        (/\ reqs[r].app \in DOMAIN apps
         /\ apps[reqs[r].app].wpc = "send_wait"
         /\ reqs[r].pc # "acquired"
         /\ reqs'[r].pc = "acquired")
            => r = apps[reqs[r].app].reqPair

\* C15, amended: for a tenant with max_requests >= 1, when every exchange
\* ends, there comes a time from which every request that was placed in the
\* wait queue has been given a running slot and forwarded; requests that
\* arrive meanwhile take free slots only until queueWorker is parked on the
\* semaphore, never after.
C15_NoWaiterStrandedWithSlots ==
    /\ <>[](\A r \in Reqs :
               (reqs[r].queued /\ apps[reqs[r].app].MaxRequests >= 1)
                   => r \in Forwarded)
    /\ [][ParkedWorkerIsNext]_vars

\* A request went through the wait queue of a tenant with a running slot,
\* saw a later arrival take the free slot first, and was forwarded after it.
C15_Witness ==
    \E r \in Reqs : \E s \in Reqs :
        /\ s > r
        /\ reqs[r].app \in DOMAIN apps
        /\ reqs[r].app = reqs[s].app
        /\ apps[reqs[r].app].MaxRequests >= 1
        /\ reqs[r].queued /\ ~reqs[s].queued
        /\ reqs[r].pc = "proxying"
        /\ reqs[s].pc = "done"
        /\ \E i, j \in 1..Len(dispatched[reqs[r].app]) :
              /\ i < j
              /\ dispatched[reqs[r].app][i].req = s
              /\ dispatched[reqs[r].app][j].req = r

\* An App that is not of the current snapshot: one a later reload replaced,
\* or one that a failed loadConfig built before it returned its error.
Superseded(a) == a \in DOMAIN apps /\ a \notin Published

\* No request that resolved to the App is unfinished.
Drained(a) == \A r \in Reqs : reqs[r].app = a => reqs[r].pc = "done"

\* C20: there comes a time from which the queueWorker of every App that is
\* superseded and drained has terminated.
C20_SupersededReleased ==
    <>[](\A a \in DOMAIN apps :
            (Superseded(a) /\ Drained(a)) => apps[a].wpc = "exited")

=============================================================================
